---- MODULE Spec2Model ----
(***************************************************************************)
(* Model of the Slack ingestion service of dynoinc/ratchet                 *)
(* (src/app/slack_ingestion_service.py, src/app/models.py).                *)
(*                                                                         *)
(* Two asyncio tasks share one database: the polling loop                  *)
(* (start_slack_ingestion / fetch_and_store_activities) and the socket     *)
(* mode listener (handle_app_mentions / handle_messages /                  *)
(* handle_onboarding).  A task runs without interruption between two       *)
(* awaits of a platform call, so every action below is one such segment,   *)
(* from the resumption of an await to the next await (or to the end).      *)
(*                                                                         *)
(* Text is a sequence of one-character strings, so that lower(), strip(),  *)
(* split(",") and the substring test are computed as Python computes them. *)
(* Platform timestamps are positive integers (the order of posting); a     *)
(* missing dictionary key or None is 0 for a timestamp, "None" for an      *)
(* identifier and NoName / NoAccounts for a name or a list of names.       *)
(***************************************************************************)
EXTENDS Integers, Sequences, FiniteSets, TLC

(***************************************************************************)
(* Bounds of the model.                                                    *)
(***************************************************************************)
\* messages posted on the platform in one behaviour
MaxPosts == 3
\* events the listener receives in one behaviour of SpecOnboard
MaxEvents == 5
\* messages filtered or classified in one behaviour of SpecFilter
MaxMessages == 2
\* polling passes started in one behaviour
MaxPasses == 2
\* calls of update_channel_status in one behaviour of SpecCkpt
MaxCalls == 3
\* largest timestamp handed to update_channel_status in SpecCkpt
MaxStamp == 3

(***************************************************************************)
(* Program constants.                                                      *)
(***************************************************************************)
\* asyncio.sleep(60) after a pass, asyncio.sleep(300) after a critical error
PollInterval == 60
BackOff == 300

(***************************************************************************)
(* Text.                                                                   *)
(***************************************************************************)
UpperCase == <<"A", "B", "C", "D", "E", "F", "G", "H", "I", "J", "K", "L", "M",
               "N", "O", "P", "Q", "R", "S", "T", "U", "V", "W", "X", "Y", "Z">>
LowerCase == <<"a", "b", "c", "d", "e", "f", "g", "h", "i", "j", "k", "l", "m",
               "n", "o", "p", "q", "r", "s", "t", "u", "v", "w", "x", "y", "z">>

\* the lower-case letter of each upper-case letter
LowerOf ==
    [c \in {UpperCase[i] : i \in 1..Len(UpperCase)} |->
        LowerCase[CHOOSE i \in 1..Len(UpperCase) : UpperCase[i] = c]]

\* str.lower() on one character
LowerChar(c) == IF c \in DOMAIN LowerOf THEN LowerOf[c] ELSE c

\* str.lower()
Lower(s) == [i \in 1..Len(s) |-> LowerChar(s[i])]

IsSpace(c) == c \in {" ", "\t", "\n"}

\* str.strip(): leading and trailing whitespace removed
Strip(s) ==
    LET keep == {i \in 1..Len(s) : ~IsSpace(s[i])}
    IN IF keep = {} THEN <<>>
       ELSE LET first == CHOOSE i \in keep : \A j \in keep : i <= j
                last  == CHOOSE i \in keep : \A j \in keep : j <= i
            IN SubSeq(s, first, last)

\* the Python test `sub in s` on strings
Contains(sub, s) ==
    \E i \in 0..(Len(s) - Len(sub)) : SubSeq(s, i + 1, i + Len(sub)) = sub

\* str.split(","): the pieces between commas, empty pieces kept
RECURSIVE SplitComma(_)
SplitComma(s) ==
    LET commas == {i \in 1..Len(s) : s[i] = ","}
    IN IF commas = {} THEN <<s>>
       ELSE LET k == CHOOSE i \in commas : \A j \in commas : i <= j
            IN <<SubSeq(s, 1, k - 1)>> \o SplitComma(SubSeq(s, k + 1, Len(s)))

\* the literals the handlers test for
S_alert == <<"a", "l", "e", "r", "t">>
S_assist == <<"a", "s", "s", "i", "s", "t">>

\* texts and names used as inputs
S_TeamRocket == <<"T", "e", "a", "m", " ", "R", "o", "c", "k", "e", "t">>
S_team_rocket == <<"t", "e", "a", "m", " ", "r", "o", "c", "k", "e", "t">>
S_ci_bot == <<"c", "i", "-", "b", "o", "t">>
S_release_bot == <<"r", "e", "l", "e", "a", "s", "e", "-", "b", "o", "t">>
S_other_bot == <<"o", "t", "h", "e", "r", "-", "b", "o", "t">>
S_accounts == <<"c", "i", "-", "b", "o", "t", ",", " ", "r", "e", "l", "e", "a",
                "s", "e", "-", "b", "o", "t">>
S_AlertDiskFull == <<"A", "L", "E", "R", "T", ":", " ", "d", "i", "s", "k", " ",
                     "f", "u", "l", "l">>
S_deploy_ok == <<"d", "e", "p", "l", "o", "y", " ", "o", "k">>
S_hey_team == <<"h", "e", "y", " ", "t", "e", "a", "m">>
S_general == <<"g", "e", "n", "e", "r", "a", "l">>

\* None for a name, and for a list of names
NoName == <<"None">>
NoAccounts == <<NoName>>

Max(a, b) == IF a >= b THEN a ELSE b

(***************************************************************************)
(* State.                                                                  *)
(***************************************************************************)
VARIABLES
    \* the platform: the messages posted (a message's timestamp is its index)
    posted,
    \* timestamps of the messages whose message event is not yet delivered
    pending,
    \* tables teams, channels, channel_processing_status, activities
    teams, channel_rows, channel_status, activities,
    \* the polling task: where it is suspended and its locals
    pc, sleep_secs, channels, idx, params, latest_timestamp,
    newest_timestamp, messages, mi, db_activity,
    \* the listener: the module-level dict (channel -> session dict, 0 for
    \* no key), the session dicts, the running handlers, the bot's latest
    \* message and their count, the number of events received and the last
    onboarding_state, sessions, handlers, bot_posts, events, last,
    \* history: passes that obtained their channel list, the checkpoints at
    \* the start of the pass, for each channel the pass that processed it last
    \* and how that ended, the newest timestamp of the page it was answered,
    \* the calls of SpecCkpt
    passes, start_ckpt, outcome, page_newest, calls

dbVars == <<teams, channel_rows, channel_status, activities>>
pollVars == <<pc, sleep_secs, channels, idx, params, latest_timestamp,
              newest_timestamp, messages, mi, db_activity>>
liveVars == <<onboarding_state, sessions, handlers, bot_posts, events, last>>
histVars == <<passes, start_ckpt, outcome, page_newest, calls>>
vars == <<posted, pending, dbVars, pollVars, liveVars, histVars>>

\* external channel identifiers
ChannelIds == {"C1", "C2"}

\* the tasks the listener runs its handlers in
HandlerIds == {1, 2}

\* a handler whose task has ended ("failed": with an exception; "key_error":
\* with the KeyError of del onboarding_state[channel_id]), and no event
IdleHandler == [pc |-> "idle", channel_id |-> "None", thread_ts |-> 0,
                state |-> 0, team_id |-> 0]
FailedHandler == [IdleHandler EXCEPT !.pc = "failed"]
KeyErrorHandler == [IdleHandler EXCEPT !.pc = "key_error"]
NoEvent == [type |-> "None", channel |-> "None", text |-> <<>>, thread_ts |-> 0,
            bot_id |-> "None", bot_name |-> NoName, ts |-> 0]

\* channel_processing_status has no row for the channel
NoRow == -1
\* the history query carries no "oldest"
NoOldest == -1

(***************************************************************************)
(* The platform (slack_sdk's AsyncWebClient), at its boundary.             *)
(***************************************************************************)
\* the replies of the thread started by message ts, oldest first
ThreadReplies(ts) ==
    SelectSeq([i \in 1..Len(posted) |-> i],
              LAMBDA i : posted[i].thread_ts = ts /\ i # ts)

\* a message as the platform returns it in a history or replies response
MsgView(ts) ==
    LET m == posted[ts]
        n == Len(ThreadReplies(ts))
    IN [ts |-> ts, bot_id |-> m.bot_id, bot_name |-> m.bot_name, text |-> m.text,
        thread_ts |-> IF m.thread_ts # 0 THEN m.thread_ts
                      ELSE IF n > 0 THEN ts ELSE 0,
        reply_count |-> n]

\* mutant: the query asks for the message at oldest too
OldestInclusiveSent == TRUE

\* the code sends "oldest" without "inclusive": the platform's default
\* excludes the message whose timestamp equals oldest
OldestInclusive == FALSE

\* conversations.history: the top-level messages of the channel after
\* oldest, in ascending timestamp order
conversations_history(p) ==
    LET sel == SelectSeq([i \in 1..Len(posted) |-> i],
                   LAMBDA i : /\ posted[i].channel = p.channel
                              /\ posted[i].thread_ts = 0
                              /\ \/ p.oldest = NoOldest
                                 \/ i > p.oldest
                                 \/ OldestInclusive /\ i = p.oldest)
    IN [k \in 1..Len(sel) |-> MsgView(sel[k])]

\* conversations.replies: the parent first, then its replies
conversations_replies(ts) ==
    LET r == ThreadReplies(ts)
    IN <<MsgView(ts)>> \o [k \in 1..Len(r) |-> MsgView(r[k])]

\* the message event the platform delivers for a posted message
EventOf(ts) ==
    LET m == posted[ts]
    IN [channel |-> m.channel, ts |-> ts, bot_id |-> m.bot_id,
        bot_name |-> m.bot_name, text |-> m.text, thread_ts |-> m.thread_ts]

(***************************************************************************)
(* src/app/models.py                                                       *)
(***************************************************************************)
\* the stored checkpoint of a channel, 0 when it has no row yet
Ckpt(ch) == IF channel_status[ch] = NoRow THEN 0 ELSE channel_status[ch]

get_or_create_channel_status(status, ch) ==
    IF status[ch] = NoRow THEN [status EXCEPT ![ch] = 0] ELSE status

\* mutant: the stored timestamp never goes down
update_channel_status_max(status, ch, new_timestamp) ==
    [get_or_create_channel_status(status, ch) EXCEPT
        ![ch] = Max(get_or_create_channel_status(status, ch)[ch], new_timestamp)]

update_channel_status(status, ch, new_timestamp) ==
    [get_or_create_channel_status(status, ch) EXCEPT ![ch] = new_timestamp]

\* an activities row; id is its index.  chan, via and pass are history: the
\* channel and the path ("poll" or "live") that created it and the pass
create_activity(acts, team_id, activity_type, status, content, timestamp,
                parent_activity_id, chan, via) ==
    Append(acts, [team_id |-> team_id, activity_type |-> activity_type,
                  status |-> status, content |-> content,
                  timestamp |-> timestamp,
                  parent_activity_id |-> parent_activity_id,
                  chan |-> chan, via |-> via,
                  pass |-> IF via = "poll" THEN passes ELSE 0])

\* the channels row of an external channel identifier, 0 when there is none
ChannelRowOf(rows, ch) ==
    IF \E i \in 1..Len(rows) : rows[i].slack_channel_id = ch
    THEN CHOOSE i \in 1..Len(rows) : rows[i].slack_channel_id = ch
    ELSE 0

(***************************************************************************)
(* src/app/slack_ingestion_service.py: persistence filter, classification  *)
(***************************************************************************)
\* `name in monitored_bot_accounts` raises TypeError when the column is NULL
PersistRaises(msg, monitored_bot_accounts) ==
    msg.bot_id # "None" /\ monitored_bot_accounts = NoAccounts

\* mutant: the name is tested the wrong way round
should_we_persist_unlisted(msg, monitored_bot_accounts) ==
    /\ msg.bot_id # "None"
    /\ ~\E k \in 1..Len(monitored_bot_accounts) :
            monitored_bot_accounts[k] = msg.bot_name

\* mutant: every bot message passes
should_we_persist_any_bot(msg, monitored_bot_accounts) == msg.bot_id # "None"

should_we_persist_message(msg, monitored_bot_accounts) ==
    /\ msg.bot_id # "None"
    /\ \E k \in 1..Len(monitored_bot_accounts) :
           monitored_bot_accounts[k] = msg.bot_name

\* mutant: the bot identity is looked at before the text
ClassifyBotFirst(msg) ==
    IF msg.bot_id # "None"
    THEN [activity_type |-> "BOT_MESSAGE", status |-> "ONGOING"]
    ELSE IF Contains(S_alert, Lower(msg.text))
    THEN [activity_type |-> "ALERT", status |-> "FIRED"]
    ELSE [activity_type |-> "HUMAN_THREAD", status |-> "ONGOING"]

\* the branches of determine_and_create_activity
Classify(msg) ==
    IF Contains(S_alert, Lower(msg.text))
    THEN [activity_type |-> "ALERT", status |-> "FIRED"]
    ELSE IF msg.bot_id # "None"
    THEN [activity_type |-> "BOT_MESSAGE", status |-> "ONGOING"]
    ELSE [activity_type |-> "HUMAN_THREAD", status |-> "ONGOING"]

determine_and_create_activity(acts, team_id, msg, parent_activity_id,
                              chan, via) ==
    LET c == Classify(msg)
    IN create_activity(acts, team_id, c.activity_type, c.status, msg.text,
                       msg.ts, parent_activity_id, chan, via)

(***************************************************************************)
(* fetch_and_store_activities                                              *)
(***************************************************************************)
\* mutant: "oldest" is sent also when the checkpoint is 0
BuildParamsAlways(ch, latest) == [channel |-> ch, oldest |-> latest]

BuildParams(ch, latest) ==
    [channel |-> ch, oldest |-> IF latest > 0 THEN latest ELSE NoOldest]

HasThread(msg) == msg.thread_ts # 0 \/ msg.reply_count > 0

\* the loop over the page from message i on, up to the next await of
\* conversations_replies ("await"), an exception ("raise") or the end
RECURSIVE ScanMessages(_, _, _, _, _)
ScanMessages(msgs, i, acts, newest, row) ==
    IF i > Len(msgs) THEN [kind |-> "done", acts |-> acts, newest |-> newest, mi |-> 0]
    ELSE LET msg == msgs[i]
             n1 == Max(newest, msg.ts)
         IN IF PersistRaises(msg, row.monitored_bot_accounts)
            THEN [kind |-> "raise", acts |-> acts, newest |-> n1, mi |-> i]
            ELSE IF should_we_persist_message(msg, row.monitored_bot_accounts)
            THEN LET acts1 == determine_and_create_activity(
                                  acts, row.team_id, msg, 0,
                                  row.slack_channel_id, "poll")
                 IN IF HasThread(msg)
                    THEN [kind |-> "await", acts |-> acts1, newest |-> n1, mi |-> i]
                    ELSE ScanMessages(msgs, i + 1, acts1, n1, row)
            ELSE ScanMessages(msgs, i + 1, acts, n1, row)

\* mutant: the parent, first in the response, is not excluded
ThreadMessagesAll(thread_result) == thread_result

\* thread_result["messages"][1:]
ThreadMessages(thread_result) == Tail(thread_result)

\* the loop over the thread's replies: one child activity per reply
RECURSIVE StoreThread(_, _, _, _, _)
StoreThread(thread_messages, k, acts, newest, row) ==
    IF k > Len(thread_messages) THEN [acts |-> acts, newest |-> newest]
    ELSE StoreThread(thread_messages, k + 1,
             determine_and_create_activity(acts, row.team_id,
                 thread_messages[k], db_activity, row.slack_channel_id, "poll"),
             Max(newest, thread_messages[k].ts), row)

NoParams == [channel |-> "None", oldest |-> NoOldest]

\* the for loop of start_slack_ingestion goes on to channel i of chs, up to
\* its await of conversations_history, or to the sleep after the last one
NextChannel(status, chs, i, outc) ==
    /\ newest_timestamp' = 0
    /\ messages' = <<>>
    /\ mi' = 0
    /\ db_activity' = 0
    /\ IF i > Len(chs)
       THEN /\ pc' = "sleep"
            /\ sleep_secs' = PollInterval
            /\ idx' = 0
            /\ params' = NoParams
            /\ latest_timestamp' = 0
            /\ channel_status' = status
            /\ outcome' = outc
       ELSE LET st1 == get_or_create_channel_status(status, chs[i])
            IN /\ pc' = "history"
               /\ sleep_secs' = sleep_secs
               /\ idx' = i
               /\ latest_timestamp' = st1[chs[i]]
               /\ params' = BuildParams(chs[i], st1[chs[i]])
               /\ channel_status' = st1
               /\ outcome' = outc

\* the pass has ended the processing of channel ch, and how
Ended(ch, kind) == [outcome EXCEPT ![ch] = [pass |-> passes, kind |-> kind]]

\* mutant: an exception in one channel ends the pass
AbortPass(i) == Len(channels) + 1

\* `continue` in the except clause of the for loop: the channel after i
AfterFailure(i) == i + 1

\* after a segment of the message loop
Continue(r, page) ==
    LET ch == channels[idx]
    IN /\ activities' = r.acts
       /\ IF r.kind = "await"
          THEN /\ pc' = "replies"
               /\ messages' = page
               /\ mi' = r.mi
               /\ db_activity' = Len(r.acts)
               /\ newest_timestamp' = r.newest
               /\ UNCHANGED <<sleep_secs, idx, params, latest_timestamp,
                              channel_status, outcome>>
          ELSE IF r.kind = "done"
          THEN NextChannel(update_channel_status(channel_status, ch, r.newest),
                           channels, idx + 1, Ended(ch, "ok"))
          ELSE NextChannel(channel_status, channels, AfterFailure(idx),
                           Ended(ch, "type_error"))

\* db.query(Channel).all()
AllChannels == [i \in 1..Len(channel_rows) |-> channel_rows[i].slack_channel_id]

\* a pass begins: the session and the channel list are obtained
PassStart ==
    /\ pc = "sleep"
    /\ passes < MaxPasses
    /\ passes' = passes + 1
    /\ channels' = AllChannels
    /\ start_ckpt' = [ch \in ChannelIds |-> Ckpt(ch)]
    /\ NextChannel(channel_status, AllChannels, 1, outcome)
    /\ UNCHANGED <<posted, pending, teams, channel_rows, activities, liveVars,
                   page_newest, calls>>

\* the sleep that follows a pass that failed as a whole: next(get_db())
\* raised ("session": the outer handler, sleep 300), or
\* db.query(Channel).all() raised ("query": the inner handler, then the
\* sleep(60) that follows the finally clause)
SleepAfter(kind) == IF kind = "session" THEN BackOff ELSE PollInterval

\* the ways a pass fails before it has processed any channel
PassFailures == {"session", "query"}

\* a pass fails as a whole, before it has a channel list (it is not counted
\* in passes); the loop goes on with the sleep
PassFail(kind) ==
    /\ pc = "sleep"
    /\ sleep_secs' = SleepAfter(kind)
    /\ UNCHANGED <<posted, pending, dbVars, liveVars, histVars, pc, channels,
                   idx, params, latest_timestamp, newest_timestamp, messages,
                   mi, db_activity>>

\* mutant: the running maximum starts at 0, not at the checkpoint
InitialNewestZero(latest) == 0

\* newest_timestamp = latest_timestamp
InitialNewest(latest) == latest

\* conversations_history returns
HistoryReturn ==
    /\ pc = "history"
    /\ LET ch == channels[idx]
           row == channel_rows[ChannelRowOf(channel_rows, ch)]
           page == conversations_history(params)
       IN /\ Continue(ScanMessages(page, 1, activities,
                                   InitialNewest(latest_timestamp), row), page)
          /\ page_newest' = [page_newest EXCEPT ![ch] =
                                IF page = <<>> THEN 0 ELSE page[Len(page)].ts]
    /\ UNCHANGED <<posted, pending, teams, channel_rows, liveVars, channels,
                   passes, start_ckpt, calls>>

\* conversations_replies returns
RepliesReturn ==
    /\ pc = "replies"
    /\ LET ch == channels[idx]
           row == channel_rows[ChannelRowOf(channel_rows, ch)]
           thread_messages == ThreadMessages(conversations_replies(messages[mi].ts))
           t == StoreThread(thread_messages, 1, activities, newest_timestamp, row)
       IN Continue(ScanMessages(messages, mi + 1, t.acts, t.newest, row), messages)
    /\ UNCHANGED <<posted, pending, teams, channel_rows, liveVars, channels,
                   passes, start_ckpt, page_newest, calls>>

\* mutant: every failure resets the checkpoint
OnErrorResetAlways(status, ch, e) == update_channel_status(status, ch, 0)

\* the except clause of fetch_and_store_activities, and for an exception
\* that is no SlackApiError the except clause of the for loop
OnError(status, ch, e) ==
    IF e = "invalid_ts" THEN update_channel_status(status, ch, 0) ELSE status

\* the awaited platform call raises: a SlackApiError naming
\* invalid_ts_oldest ("invalid_ts"), another SlackApiError ("transient"), or
\* an exception of the transport that is no SlackApiError ("network")
CallFails(e) ==
    /\ pc \in {"history", "replies"}
    /\ LET ch == channels[idx]
       IN NextChannel(OnError(channel_status, ch, e), channels,
                      AfterFailure(idx), Ended(ch, e))
    /\ UNCHANGED <<posted, pending, teams, channel_rows, activities, liveVars,
                   channels, passes, start_ckpt, page_newest, calls>>

(***************************************************************************)
(* The environment: users and bots post messages.                          *)
(***************************************************************************)
\* who posts what
Authors ==
    { [bot_id |-> "B1", bot_name |-> S_ci_bot, text |-> S_AlertDiskFull],
      [bot_id |-> "None", bot_name |-> NoName, text |-> S_hey_team] }

\* a message is posted in a channel, at top level (thread 0) or as a reply
\* to a top-level message of that channel, once the event of the message
\* before it has been delivered
Post(ch, a, thread) ==
    /\ Len(posted) < MaxPosts
    /\ pending = {}
    /\ \/ thread = 0
       \/ /\ thread \in 1..Len(posted)
          /\ posted[thread].channel = ch
          /\ posted[thread].thread_ts = 0
    /\ posted' = Append(posted, [channel |-> ch, bot_id |-> a.bot_id,
                                 bot_name |-> a.bot_name, text |-> a.text,
                                 thread_ts |-> thread])
    /\ pending' = pending \cup {Len(posted) + 1}
    /\ UNCHANGED <<dbVars, pollVars, liveVars, histVars>>

(***************************************************************************)
(* handle_messages, for a message of a channel without onboarding session  *)
(***************************************************************************)
\* mutant: the live path links a thread reply to its thread's timestamp
PersistEventLinked(event) ==
    LET r == ChannelRowOf(channel_rows, event.channel)
    IN IF /\ r # 0
          /\ ~PersistRaises(event, channel_rows[r].monitored_bot_accounts)
          /\ should_we_persist_message(event, channel_rows[r].monitored_bot_accounts)
       THEN determine_and_create_activity(activities, channel_rows[r].team_id,
                                          event, event.thread_ts, event.channel,
                                          "live")
       ELSE activities

\* the branch that persists the event as a top-level activity; a TypeError
\* of the filter ends the handler with nothing stored
PersistEvent(event) ==
    LET r == ChannelRowOf(channel_rows, event.channel)
    IN IF /\ r # 0
          /\ ~PersistRaises(event, channel_rows[r].monitored_bot_accounts)
          /\ should_we_persist_message(event, channel_rows[r].monitored_bot_accounts)
       THEN determine_and_create_activity(activities, channel_rows[r].team_id,
                                          event, 0, event.channel, "live")
       ELSE activities

\* the message event of a posted message is delivered and handled; the
\* socket delivers the events in the order of posting
Deliver(ts) ==
    /\ ts \in pending
    /\ \A u \in pending : ts <= u
    /\ onboarding_state[posted[ts].channel] = 0
    /\ pending' = pending \ {ts}
    /\ activities' = PersistEvent(EventOf(ts))
    /\ UNCHANGED <<posted, teams, channel_rows, channel_status, pollVars,
                   liveVars, histVars>>

(***************************************************************************)
(* Specification of the two ingestion paths over registered channels.      *)
(***************************************************************************)
\* the registry after onboarding: one team with two channels; the second
\* channel has its monitored accounts set, or not yet (its onboarding was
\* interrupted after the team name)
RegisteredRows(acc2) ==
    << [slack_channel_id |-> "C1", name |-> S_general, team_id |-> 1,
        monitored_bot_accounts |-> <<S_ci_bot>>],
       [slack_channel_id |-> "C2", name |-> S_general, team_id |-> 1,
        monitored_bot_accounts |-> acc2] >>

InitCommon ==
    /\ posted = <<>>
    /\ pending = {}
    /\ activities = <<>>
    /\ channel_status = [ch \in ChannelIds |-> NoRow]
    /\ pc = "sleep"
    /\ sleep_secs = 0
    /\ channels = <<>>
    /\ idx = 0
    /\ params = NoParams
    /\ latest_timestamp = 0
    /\ newest_timestamp = 0
    /\ messages = <<>>
    /\ mi = 0
    /\ db_activity = 0
    /\ onboarding_state = [ch \in ChannelIds |-> 0]
    /\ sessions = <<>>
    /\ handlers = [h \in HandlerIds |-> IdleHandler]
    /\ bot_posts = [n |-> 0, channel |-> "None", thread_ts |-> 0, kind |-> "None"]
    /\ events = 0
    /\ last = NoEvent
    /\ passes = 0
    /\ start_ckpt = [ch \in ChannelIds |-> 0]
    /\ outcome = [ch \in ChannelIds |-> [pass |-> 0, kind |-> "none"]]
    /\ page_newest = [ch \in ChannelIds |-> 0]
    /\ calls = <<>>

Init ==
    /\ InitCommon
    /\ teams = << [name |-> S_team_rocket, slack_channel_ids |-> <<"C1", "C2">>] >>
    /\ \E acc2 \in {<<S_ci_bot>>, NoAccounts} : channel_rows = RegisteredRows(acc2)

Next ==
    \/ PassStart
    \/ \E kind \in PassFailures : PassFail(kind)
    \/ HistoryReturn
    \/ RepliesReturn
    \/ \E e \in {"invalid_ts", "transient", "network"} : CallFails(e)
    \/ \E ch \in ChannelIds, a \in Authors, thread \in 0..MaxPosts : Post(ch, a, thread)
    \/ \E ts \in 1..MaxPosts : Deliver(ts)

Spec == Init /\ [][Next]_vars

(***************************************************************************)
(* Team and channel registry                                               *)
(***************************************************************************)
InSeq(x, q) == \E k \in 1..Len(q) : q[k] = x

\* db.query(Team).filter(Team.name == team_name).first(), 0 for None
TeamByName(ts, team_name) ==
    IF \E i \in 1..Len(ts) : ts[i].name = team_name
    THEN CHOOSE i \in 1..Len(ts) :
             /\ ts[i].name = team_name
             /\ \A j \in 1..Len(ts) : ts[j].name = team_name => i <= j
    ELSE 0

\* the first team whose slack_channel_ids holds the channel, 0 for None
get_team_by_slack_channel(ts, slack_channel_id) ==
    IF \E i \in 1..Len(ts) : InSeq(slack_channel_id, ts[i].slack_channel_ids)
    THEN CHOOSE i \in 1..Len(ts) :
             /\ InSeq(slack_channel_id, ts[i].slack_channel_ids)
             /\ \A j \in 1..Len(ts) :
                   InSeq(slack_channel_id, ts[j].slack_channel_ids) => i <= j
    ELSE 0

create_team(ts, name, slack_channel_id) ==
    Append(ts, [name |-> name, slack_channel_ids |-> <<slack_channel_id>>])

\* the teams table afterwards and the id of the team returned.  The append
\* to slack_channel_ids changes the list of a plain ARRAY column in place
\* (models.py, Team.slack_channel_ids): the commit stores it only if the
\* session has tracked the change (tracked), else the row stays as it was.
get_or_create_team(ts, team_name, channel_id, tracked) ==
    LET t == TeamByName(ts, team_name)
        c == get_team_by_slack_channel(ts, channel_id)
    IN IF t # 0
       THEN IF ~InSeq(channel_id, ts[t].slack_channel_ids) /\ tracked
            THEN [teams |-> [ts EXCEPT ![t].slack_channel_ids = Append(@, channel_id)],
                  id |-> t]
            ELSE [teams |-> ts, id |-> t]
       ELSE IF c = 0
            THEN [teams |-> create_team(ts, team_name, channel_id), id |-> Len(ts) + 1]
            ELSE [teams |-> ts, id |-> c]

\* mutant: the row is inserted without looking for one
create_channel_always(rows, slack_channel_id, channel_name, team_id) ==
    Append(rows, [slack_channel_id |-> slack_channel_id,
                  name |-> channel_name, team_id |-> team_id,
                  monitored_bot_accounts |-> NoAccounts])

\* the channels table afterwards; a new row has no monitored accounts
get_or_create_channel(rows, slack_channel_id, channel_name, team_id) ==
    IF ChannelRowOf(rows, slack_channel_id) # 0 THEN rows
    ELSE Append(rows, [slack_channel_id |-> slack_channel_id,
                       name |-> channel_name, team_id |-> team_id,
                       monitored_bot_accounts |-> NoAccounts])

(***************************************************************************)
(* The listener: handle_app_mentions, handle_messages, handle_onboarding   *)
(***************************************************************************)
\* thread identifiers (timestamps of thread roots) of the events
Threads == {1, 2}

\* chat_postMessage is called: bot_posts is the bot's latest message and
\* the number of messages it has posted
Say(ch, th, kind) ==
    [n |-> bot_posts.n + 1, channel |-> ch, thread_ts |-> th, kind |-> kind]

\* text = event.get("text", "").strip().lower()
EventText(event) == Lower(Strip(event.text))

\* the pieces as split, not trimmed
BotAccountsUntrimmed(text) == SplitComma(text)

\* [account.strip() for account in text.split(",")]
BotAccounts(text) ==
    LET pieces == SplitComma(text)
    IN [k \in 1..Len(pieces) |-> Strip(pieces[k])]

\* the slot holds no running handler; the next event's handler takes the
\* first such slot
Free(h) == handlers[h].pc \in {"idle", "failed", "key_error"}
FirstFree(h) == Free(h) /\ \A g \in HandlerIds : g < h => ~Free(g)

\* the handler awaits a platform call: what it holds when it resumes
Suspend(h, pcv, ch, th, sid, team_id) ==
    [handlers EXCEPT ![h] = [pc |-> pcv, channel_id |-> ch, thread_ts |-> th,
                             state |-> sid, team_id |-> team_id]]

\* an app_mention event arrives; th is event.get("thread_ts", ts).  The
\* handler runs up to its await of chat_postMessage.
MentionStart(h, ch, th) ==
    /\ FirstFree(h)
    /\ events < MaxEvents
    /\ events' = events + 1
    /\ last' = [NoEvent EXCEPT !.type = "app_mention", !.channel = ch,
                               !.thread_ts = th, !.ts = events + 1]
    /\ IF ChannelRowOf(channel_rows, ch) # 0
       THEN /\ bot_posts' = Say(ch, th, "toddler")
            /\ UNCHANGED <<onboarding_state, sessions>>
       ELSE /\ sessions' = Append(sessions, [step |-> "waiting_for_assist",
                                             thread_ts |-> th, team_id |-> 0])
            /\ onboarding_state' = [onboarding_state EXCEPT ![ch] = Len(sessions) + 1]
            /\ bot_posts' = Say(ch, th, "not_set_up")
    /\ handlers' = Suspend(h, "post", ch, th, 0, 0)
    /\ UNCHANGED <<posted, pending, dbVars, pollVars, histVars>>

\* mutant: the thread of the event is not compared
InAnyThread(thread_ts, state) == TRUE

\* thread_ts == state["thread_ts"]
InThread(thread_ts, state) == thread_ts = state.thread_ts

\* a message event arrives.  The handler runs up to its first await, or to
\* its end when its branch awaits nothing.
MessageStart(h, event) ==
    LET ch == event.channel
        text == EventText(event)
        thread_ts == event.thread_ts
        sid == onboarding_state[ch]
        state == sessions[sid]
    IN
    /\ FirstFree(h)
    /\ events < MaxEvents
    /\ events' = events + 1
    /\ last' = [event EXCEPT !.ts = events + 1]
    /\ IF sid # 0
       THEN IF /\ state.step = "waiting_for_assist"
               /\ InThread(thread_ts, state)
               /\ Contains(S_assist, text)
            THEN /\ sessions' = [sessions EXCEPT ![sid].step = "team_name"]
                 /\ bot_posts' = Say(ch, thread_ts, "ask_team")
                 /\ handlers' = Suspend(h, "post", ch, thread_ts, sid, 0)
                 /\ UNCHANGED <<onboarding_state, dbVars>>
            ELSE IF InThread(thread_ts, state) /\ state.step = "team_name"
            THEN \E tracked \in BOOLEAN :
                 LET r == get_or_create_team(teams, text, ch, tracked)
                 IN /\ teams' = r.teams
                    /\ sessions' = [sessions EXCEPT ![sid].team_id = r.id]
                    /\ handlers' = Suspend(h, "info", ch, state.thread_ts, sid, r.id)
                    /\ UNCHANGED <<onboarding_state, bot_posts, channel_rows,
                                   channel_status, activities>>
            ELSE IF InThread(thread_ts, state) /\ state.step = "bot_accounts"
            THEN /\ channel_rows' =
                        [channel_rows EXCEPT ![ChannelRowOf(channel_rows, ch)]
                             .monitored_bot_accounts = BotAccounts(text)]
                 /\ bot_posts' = Say(ch, state.thread_ts, "complete")
                 /\ handlers' = Suspend(h, "accounts_post", ch, state.thread_ts, sid, 0)
                 /\ UNCHANGED <<onboarding_state, sessions, teams,
                                channel_status, activities>>
            ELSE /\ handlers' = [handlers EXCEPT ![h] = IdleHandler]
                 /\ UNCHANGED <<onboarding_state, sessions, bot_posts, dbVars>>
       ELSE /\ activities' = PersistEvent([event EXCEPT !.ts = events + 1])
            /\ handlers' = [handlers EXCEPT ![h] =
                                IF /\ ChannelRowOf(channel_rows, ch) # 0
                                   /\ PersistRaises(event,
                                          channel_rows[ChannelRowOf(channel_rows, ch)]
                                              .monitored_bot_accounts)
                                THEN FailedHandler ELSE IdleHandler]
            /\ UNCHANGED <<onboarding_state, sessions, bot_posts,
                           teams, channel_rows, channel_status>>
    /\ UNCHANGED <<posted, pending, pollVars, histVars>>

\* chat_postMessage returns to a handler that has nothing left to do
ResumePost(h) ==
    /\ handlers[h].pc = "post"
    /\ handlers' = [handlers EXCEPT ![h] = IdleHandler]
    /\ UNCHANGED <<posted, pending, dbVars, pollVars, histVars,
                   onboarding_state, sessions, bot_posts, events, last>>

\* conversations_info returns to handle_onboarding at the team name step
ResumeInfo(h) ==
    LET me == handlers[h]
        team == teams[me.team_id]
    IN
    /\ me.pc = "info"
    /\ channel_rows' = get_or_create_channel(channel_rows, me.channel_id,
                                             S_general, me.team_id)
    /\ sessions' = [sessions EXCEPT ![me.state].step = "bot_accounts"]
    /\ bot_posts' = Say(me.channel_id, me.thread_ts,
                        IF /\ InSeq(me.channel_id, team.slack_channel_ids)
                           /\ Len(team.slack_channel_ids) > 1
                        THEN "team_exists" ELSE "team_registered")
    /\ handlers' = [handlers EXCEPT ![h].pc = "post"]
    /\ UNCHANGED <<posted, pending, teams, channel_status, activities, pollVars,
                   histVars, onboarding_state, events, last>>

\* chat_postMessage returns to handle_onboarding at the bot accounts step:
\* del onboarding_state[channel_id], a KeyError when the key is gone
ResumeAccounts(h) ==
    /\ handlers[h].pc = "accounts_post"
    /\ onboarding_state' = [onboarding_state EXCEPT ![handlers[h].channel_id] = 0]
    /\ handlers' = [handlers EXCEPT ![h] =
                        IF onboarding_state[handlers[h].channel_id] = 0
                        THEN KeyErrorHandler ELSE IdleHandler]
    /\ UNCHANGED <<posted, pending, dbVars, pollVars, histVars, sessions,
                   bot_posts, events, last>>

\* the platform call a handler awaits raises: the handler ends there
HandlerFails(h) ==
    /\ ~Free(h)
    /\ handlers' = [handlers EXCEPT ![h] = FailedHandler]
    /\ UNCHANGED <<posted, pending, dbVars, pollVars, histVars,
                   onboarding_state, sessions, bot_posts, events, last>>

\* the process restarts: the dict, its sessions and the handlers are gone
\* (last notes the restart in place of an event)
Restart ==
    /\ \/ sessions # <<>>
       \/ \E h \in HandlerIds : handlers[h] # IdleHandler
    /\ onboarding_state' = [ch \in ChannelIds |-> 0]
    /\ sessions' = <<>>
    /\ handlers' = [h \in HandlerIds |-> IdleHandler]
    /\ last' = [NoEvent EXCEPT !.type = "restart"]
    /\ UNCHANGED <<posted, pending, dbVars, pollVars, histVars, bot_posts,
                   events>>

\* the message events of SpecOnboard: what users and bots write, in a
\* thread or at top level (thread 0)
OnboardTexts == {S_assist, S_TeamRocket, S_accounts}

MessageEvents ==
    { [type |-> "message", channel |-> ch, text |-> t, thread_ts |-> th,
       bot_id |-> "None", bot_name |-> NoName, ts |-> 0] :
          ch \in ChannelIds, t \in OnboardTexts, th \in Threads \cup {0} }
    \cup
    { [type |-> "message", channel |-> ch, text |-> S_AlertDiskFull,
       thread_ts |-> 0, bot_id |-> "B1", bot_name |-> S_ci_bot, ts |-> 0] :
          ch \in ChannelIds }

InitOnboard ==
    /\ InitCommon
    /\ teams = <<>>
    /\ channel_rows = <<>>

NextOnboard ==
    \/ \E h \in HandlerIds, ch \in ChannelIds, th \in Threads : MentionStart(h, ch, th)
    \/ \E h \in HandlerIds, event \in MessageEvents : MessageStart(h, event)
    \/ \E h \in HandlerIds : ResumePost(h)
    \/ \E h \in HandlerIds : ResumeInfo(h)
    \/ \E h \in HandlerIds : ResumeAccounts(h)
    \/ \E h \in HandlerIds : HandlerFails(h)
    \/ Restart

SpecOnboard == InitOnboard /\ [][NextOnboard]_vars

(***************************************************************************)
(* Specification of the checkpoint store alone: update_channel_status is   *)
(* called with any timestamps in any order.                                *)
(***************************************************************************)
CkptCall(ch, t) ==
    /\ Len(calls) < MaxCalls
    /\ channel_status' = update_channel_status(channel_status, ch, t)
    /\ calls' = Append(calls, [channel |-> ch, new_timestamp |-> t])
    /\ UNCHANGED <<posted, pending, teams, channel_rows, activities, pollVars,
                   liveVars, passes, start_ckpt, outcome, page_newest>>

NextCkpt == \E ch \in ChannelIds, t \in 0..MaxStamp : CkptCall(ch, t)

SpecCkpt == Init /\ [][NextCkpt]_vars

(***************************************************************************)
(* Specification of get_or_create_team alone: it is called with any name   *)
(* and channel, from any of the starting registries.                       *)
(***************************************************************************)
TeamNames == {S_team_rocket, S_general}

\* registries that calls of get_or_create_team lead to from an empty one
StartRegistries ==
    { <<>>,
      << [name |-> S_team_rocket, slack_channel_ids |-> <<"C1">>] >>,
      << [name |-> S_team_rocket, slack_channel_ids |-> <<"C2">>] >>,
      << [name |-> S_team_rocket, slack_channel_ids |-> <<"C2">>],
         [name |-> S_general, slack_channel_ids |-> <<"C1">>] >> }

InitTeam ==
    /\ InitCommon
    /\ teams \in StartRegistries
    /\ channel_rows = <<>>

\* one call; calls notes its arguments, the table before it and its result
TeamCall(team_name, channel_id, tracked) ==
    LET r == get_or_create_team(teams, team_name, channel_id, tracked)
    IN /\ Len(calls) < MaxCalls
       /\ teams' = r.teams
       /\ calls' = Append(calls, [team_name |-> team_name, channel_id |-> channel_id,
                                  before |-> teams, id |-> r.id])
       /\ UNCHANGED <<posted, pending, channel_rows, channel_status, activities,
                      pollVars, liveVars, passes, start_ckpt, outcome, page_newest>>

NextTeam ==
    \E team_name \in TeamNames, channel_id \in ChannelIds, tracked \in BOOLEAN :
        TeamCall(team_name, channel_id, tracked)

SpecTeam == InitTeam /\ [][NextTeam]_vars

(***************************************************************************)
(* Specification of the filter and the classification alone: any message   *)
(* is put through `if should_we_persist_message(...):                      *)
(* determine_and_create_activity(...)`, or classified directly as a thread *)
(* reply is.                                                               *)
(***************************************************************************)
\* who writes: a human, two bots, a bot without a profile name
Identities ==
    { [bot_id |-> "None", bot_name |-> NoName],
      [bot_id |-> "B1", bot_name |-> S_ci_bot],
      [bot_id |-> "B2", bot_name |-> S_other_bot],
      [bot_id |-> "B3", bot_name |-> NoName] }

\* what is written; <<>> is a message without text
FilterTexts == {S_AlertDiskFull, S_deploy_ok, S_hey_team, <<>>}

\* monitored_bot_accounts of the channel, NoAccounts for NULL
AccountLists == {<<S_ci_bot>>, <<S_other_bot>>, <<S_ci_bot, S_release_bot>>,
                 NoAccounts}

FilterMessage(who, text) ==
    [channel |-> "C1", ts |-> Len(calls) + 1, bot_id |-> who.bot_id,
     bot_name |-> who.bot_name, text |-> text, thread_ts |-> 0]

\* the top-level step of the polling loop on one message
FilterCall(who, text, monitored_bot_accounts) ==
    LET msg == FilterMessage(who, text)
        result == IF PersistRaises(msg, monitored_bot_accounts) THEN "raise"
                  ELSE IF should_we_persist_message(msg, monitored_bot_accounts)
                  THEN "true" ELSE "false"
    IN /\ Len(calls) < MaxMessages
       /\ activities' = IF result = "true"
                        THEN determine_and_create_activity(activities, 1, msg, 0,
                                                           "C1", "poll")
                        ELSE activities
       /\ calls' = Append(calls, [op |-> "filter", msg |-> msg,
                                  accounts |-> monitored_bot_accounts,
                                  result |-> result,
                                  stored |-> Len(activities') - Len(activities)])
       /\ UNCHANGED <<posted, pending, teams, channel_rows, channel_status,
                      pollVars, liveVars, passes, start_ckpt, outcome, page_newest>>

\* determine_and_create_activity on one message
ClassifyCall(who, text) ==
    LET msg == FilterMessage(who, text)
    IN /\ Len(calls) < MaxMessages
       /\ activities' = determine_and_create_activity(activities, 1, msg, 0,
                                                      "C1", "poll")
       /\ calls' = Append(calls, [op |-> "classify", msg |-> msg,
                                  accounts |-> NoAccounts, result |-> "true",
                                  stored |-> 1])
       /\ UNCHANGED <<posted, pending, teams, channel_rows, channel_status,
                      pollVars, liveVars, passes, start_ckpt, outcome, page_newest>>

NextFilter ==
    \/ \E who \in Identities, text \in FilterTexts, acc \in AccountLists :
          FilterCall(who, text, acc)
    \/ \E who \in Identities, text \in FilterTexts : ClassifyCall(who, text)

SpecFilter == Init /\ [][NextFilter]_vars

(***************************************************************************)
(* Claims.                                                                 *)
(***************************************************************************)
CallFailures == {"invalid_ts", "transient", "network"}
PollFailures == CallFailures \cup {"type_error"}

\* the current pass has ended the processing of channel ch with kind k
EndedWith(ch, k) == outcome[ch] = [pass |-> passes, kind |-> k]

\* the activities of channel ch created by the polling path in pass n
PollActs(ch, n) ==
    {i \in 1..Len(activities) : /\ activities[i].chan = ch
                                /\ activities[i].via = "poll"
                                /\ activities[i].pass = n}

\* the children of activity p
Children(p) ==
    {i \in 1..Len(activities) : activities[i].parent_activity_id = p}

\* C1: no message, identified by (channel, platform timestamp), ever has
\* two stored activities, whatever the interleaving of polling passes and
\* live message events.
C1_AtMostOnce ==
    \A i, j \in 1..Len(activities) :
        (i < j /\ activities[i].chan = activities[j].chan)
            => activities[i].timestamp # activities[j].timestamp

\* the timestamps handed to update_channel_status for channel ch, in order
CallsOf(ch) ==
    LET sel == SelectSeq(calls, LAMBDA c : c.channel = ch)
    IN [k \in 1..Len(sel) |-> sel[k].new_timestamp]

RECURSIVE MaxOfSeq(_)
MaxOfSeq(q) == IF q = <<>> THEN 0 ELSE Max(Head(q), MaxOfSeq(Tail(q)))

\* C2 (as stated): after any sequence of calls of update_channel_status
\* with timestamps t1..tn for a channel, the stored value is max(t1..tn).
C2_StoredIsMax ==
    \A ch \in ChannelIds :
        CallsOf(ch) # <<>> => channel_status[ch] = MaxOfSeq(CallsOf(ch))

\* C2 (amended): update_channel_status stores new_timestamp as it is given:
\* after any sequence of calls for a channel the stored value is the
\* timestamp of the last call (so a call with 0 resets and a following call
\* with t yields t), and a channel never called for has no row.
C2_StoredIsLast ==
    \A ch \in ChannelIds :
        IF CallsOf(ch) = <<>> THEN channel_status[ch] = NoRow
        ELSE channel_status[ch] = CallsOf(ch)[Len(CallsOf(ch))]

\* C2 witness: a call with a smaller timestamp, a reset to 0 and a call
\* after the reset have all been made for one channel.
C2_Witness ==
    \E ch \in ChannelIds :
        LET q == CallsOf(ch)
        IN /\ Len(q) = 3
           /\ q[1] > q[2]
           /\ q[2] = 0
           /\ q[3] > 0
           /\ q[3] < q[1]

\* C3: from one state to the next a channel's stored checkpoint does not
\* decrease, except in the step in which an invalid_ts_oldest failure of
\* that channel is handled, which sets it to 0.
C3_Monotone ==
    [][\A ch \in ChannelIds :
          Ckpt(ch)' < Ckpt(ch)
              => /\ outcome[ch].pass < passes
                 /\ outcome'[ch] = [pass |-> passes, kind |-> "invalid_ts"]
                 /\ Ckpt(ch)' = 0]_vars

\* C3 witness: a checkpoint that an earlier pass had advanced was reset to
\* 0 by an invalid_ts_oldest failure.
C3_Witness ==
    \E ch \in ChannelIds :
        /\ EndedWith(ch, "invalid_ts")
        /\ start_ckpt[ch] > 0
        /\ Ckpt(ch) = 0

\* C4: in the step in which the replies of the thread of a persisted
\* parent message are returned, exactly one child activity per reply on
\* the platform is created, in order, each with the parent reference equal
\* to the identifier of the parent activity (which is the one top-level
\* activity this pass created for the parent message), whoever wrote the
\* reply; and in the step in which the pass completes a channel its
\* checkpoint becomes at least the timestamp of every activity the pass
\* created for the channel, and no more than the newest timestamp known.
C4_ThreadStep ==
    (/\ pc = "replies"
     /\ <<pc, idx, mi>>' # <<pc, idx, mi>>
     /\ ~(/\ outcome'[channels[idx]].pass = passes
          /\ outcome'[channels[idx]].kind \in CallFailures))
    => LET ch == channels[idx]
           R == ThreadReplies(messages[mi].ts)
           base == Len(activities)
       IN /\ Len(activities') >= base + Len(R)
          /\ \A j \in 1..base : /\ activities'[j] = activities[j]
                                /\ activities[j].parent_activity_id # db_activity
          /\ \A k \in 1..Len(R) :
                /\ activities'[base + k].parent_activity_id = db_activity
                /\ activities'[base + k].timestamp = R[k]
                /\ activities'[base + k].chan = ch
                /\ activities'[base + k].content = posted[R[k]].text
          /\ \A j \in (base + Len(R) + 1)..Len(activities') :
                activities'[j].parent_activity_id # db_activity
          /\ activities[db_activity].parent_activity_id = 0
          /\ activities[db_activity].timestamp = messages[mi].ts
          /\ {i \in PollActs(ch, passes) :
                 /\ activities[i].parent_activity_id = 0
                 /\ activities[i].timestamp = messages[mi].ts} = {db_activity}

C4_CheckpointStep ==
    \A ch \in ChannelIds :
        (outcome'[ch] = [pass |-> passes, kind |-> "ok"] /\ outcome[ch] # outcome'[ch])
        => /\ \A i \in 1..Len(activities') :
                 (/\ activities'[i].chan = ch
                  /\ activities'[i].via = "poll"
                  /\ activities'[i].pass = passes)
                 => activities'[i].timestamp <= Ckpt(ch)'
           /\ Ckpt(ch)' <= Max(Len(posted), latest_timestamp)
           /\ Ckpt(ch)' >= latest_timestamp

C4_ThreadLinkage == [][C4_ThreadStep /\ C4_CheckpointStep]_vars

\* C4 witness: a pass has completed a channel that holds one parent message
\* of a monitored bot with two replies, one of them written by a human: one
\* parent activity, two children, the checkpoint at the newest of the three.
C4_Witness ==
    \E ch \in ChannelIds :
        /\ EndedWith(ch, "ok")
        /\ passes = 1
        /\ Len(posted) = 3
        /\ \A t \in 1..3 : posted[t].channel = ch
        /\ posted[1].thread_ts = 0 /\ posted[2].thread_ts = 1 /\ posted[3].thread_ts = 1
        /\ posted[2].bot_id = "None"
        /\ Cardinality({i \in PollActs(ch, 1) : activities[i].parent_activity_id = 0}) = 1
        /\ \E p \in PollActs(ch, 1) :
              /\ activities[p].timestamp = 1
              /\ Cardinality(Children(p)) = 2
              /\ \E c \in Children(p) : activities[c].activity_type = "HUMAN_THREAD"
        /\ Ckpt(ch) = 3

\* C5: every stored activity with a parent reference points to an activity
\* stored before it, and an activity created by the live path has none.
C5_ParentExists ==
    \A i \in 1..Len(activities) :
        /\ activities[i].parent_activity_id # 0
              => activities[i].parent_activity_id \in 1..(i - 1)
        /\ activities[i].via = "live" => activities[i].parent_activity_id = 0

\* C5 witness: a child activity of the polling path and an activity the
\* live path created for a thread reply are both stored.
C5_Witness ==
    /\ \E i \in 1..Len(activities) : activities[i].parent_activity_id # 0
    /\ \E i \in 1..Len(activities) :
          /\ activities[i].via = "live"
          /\ posted[activities[i].timestamp].thread_ts # 0

\* C6: if the polling path creates activity A before activity B for the
\* same channel in one pass, A's platform timestamp is at most B's.
C6_CreationOrder ==
    \A ch \in ChannelIds, n \in 1..MaxPasses :
        \A i, j \in PollActs(ch, n) :
            i < j => activities[i].timestamp <= activities[j].timestamp

C8_TransientKeeps ==
    \A ch \in ChannelIds :
        outcome[ch].kind \in {"transient", "network"} => Ckpt(ch) = start_ckpt[ch]

\* C8 witness: the pass is over, the channel failed at a replies query,
\* after the pass had stored the parent, which is newer than the checkpoint.
C8_Witness ==
    \E ch \in ChannelIds :
        /\ pc = "sleep"
        /\ EndedWith(ch, "transient")
        /\ \E i \in PollActs(ch, passes) : activities[i].timestamp > Ckpt(ch)

\* C9: the step that handles an invalid_ts_oldest failure of a channel sets
\* that channel's checkpoint to 0 and leaves every other checkpoint as it
\* was, and the pass goes on with the next channel; and the next query for
\* a channel whose processing ended so carries no "oldest".
C9_ResetStep ==
    \A ch \in ChannelIds :
        /\ (outcome'[ch] = [pass |-> passes, kind |-> "invalid_ts"]
            /\ outcome[ch] # outcome'[ch])
              => /\ Ckpt(ch)' = 0
                 /\ \A o \in ChannelIds \ {ch} : Ckpt(o)' = Ckpt(o)
                 /\ IF idx < Len(channels)
                    THEN pc' = "history" /\ params'.channel = channels[idx + 1]
                    ELSE pc' = "sleep"
        /\ (/\ outcome[ch].kind = "invalid_ts"
            /\ pc' = "history"
            /\ params'.channel = ch
            /\ (pc = "sleep" \/ idx' # idx))
              => params'.oldest = NoOldest

C9_InvalidTsReset == [][C9_ResetStep]_vars

\* C9 witness: the second pass is querying, without "oldest", a channel
\* with messages whose processing in the first pass ended in the reset,
\* while the other channel keeps the checkpoint the first pass gave it.
C9_Witness ==
    \E ch \in ChannelIds :
        /\ passes = 2
        /\ pc = "history"
        /\ params = [channel |-> ch, oldest |-> NoOldest]
        /\ outcome[ch] = [pass |-> 1, kind |-> "invalid_ts"]
        /\ \E i \in PollActs(ch, 1) : TRUE
        /\ \E o \in ChannelIds \ {ch} : Ckpt(o) > 0


\* a message event arrives in the thread the session of its channel is
\* pinned to, the session being at the given step
SameThreadMessage(ch, step) ==
    /\ events' = events + 1
    /\ last'.type = "message"
    /\ last'.channel = ch
    /\ onboarding_state[ch] # 0
    /\ sessions[onboarding_state[ch]].step = step
    /\ last'.thread_ts = sessions[onboarding_state[ch]].thread_ts

\* the handler of the message that has just arrived
HandlerOfLast(h) == Free(h) /\ ~Free(h)'

\* a message containing "assist" moves the waiting session to the team name
\* step
C10_AssistStep ==
    \A ch \in ChannelIds :
        (SameThreadMessage(ch, "waiting_for_assist")
            /\ Contains(S_assist, EventText(last')))
        => /\ onboarding_state'[ch] = onboarding_state[ch]
           /\ sessions'[onboarding_state[ch]] =
                  [sessions[onboarding_state[ch]] EXCEPT !.step = "team_name"]
           /\ UNCHANGED dbVars

\* a message at the team name step resolves a team (the one of that name,
\* or else the one that held the channel), notes it in the session and
\* waits for the channel's name
C10_TeamNameStep ==
    \A ch \in ChannelIds :
        SameThreadMessage(ch, "team_name")
        => LET sid == onboarding_state[ch]
               id == sessions'[sid].team_id
           IN /\ onboarding_state'[ch] = sid
              /\ id \in 1..Len(teams')
              /\ \/ teams'[id].name = EventText(last')
                 \/ id \in 1..Len(teams) /\ InSeq(ch, teams[id].slack_channel_ids)
              /\ \E h \in HandlerIds :
                    /\ HandlerOfLast(h)
                    /\ handlers'[h].pc = "info"
                    /\ handlers'[h].state = sid
                    /\ handlers'[h].team_id = id

\* when the channel's name has come, the channel, which had no row, is
\* registered under the resolved team and the session is at the bot
\* accounts step
C10_RegisterStep ==
    \A h \in HandlerIds :
        (handlers[h].pc = "info" /\ handlers'[h].pc = "post"
            /\ ChannelRowOf(channel_rows, handlers[h].channel_id) = 0)
        => LET me == handlers[h]
               r == ChannelRowOf(channel_rows', me.channel_id)
           IN /\ r # 0
              /\ channel_rows'[r].team_id = me.team_id
              /\ sessions'[me.state].step = "bot_accounts"
              /\ sessions'[me.state].team_id = sessions[me.state].team_id
              /\ onboarding_state' = onboarding_state

\* a message at the bot accounts step sets the channel's monitored accounts
\* to the comma-separated pieces of its text, each trimmed
C10_AccountsStep ==
    \A ch \in ChannelIds :
        SameThreadMessage(ch, "bot_accounts")
        => LET r == ChannelRowOf(channel_rows', ch)
               pieces == SplitComma(EventText(last'))
           IN /\ r # 0
              /\ Len(channel_rows'[r].monitored_bot_accounts) = Len(pieces)
              /\ \A k \in 1..Len(pieces) :
                    channel_rows'[r].monitored_bot_accounts[k] = Strip(pieces[k])
              /\ \E h \in HandlerIds :
                    HandlerOfLast(h) /\ handlers'[h].pc = "accounts_post"

\* when the completion message has been posted (the handler ends normally,
\* the process has not restarted), the session of the channel is removed
C10_RemoveStep ==
    \A h \in HandlerIds :
        (handlers[h].pc = "accounts_post" /\ handlers'[h].pc = "idle"
            /\ sessions' = sessions)
        => /\ onboarding_state[handlers[h].channel_id] # 0
           /\ onboarding_state'[handlers[h].channel_id] = 0

\* C10: three successive messages in the thread a waiting session is pinned
\* to (one containing "assist", then a team name, then a comma-separated
\* account list) move the session to the team name step, then to the bot
\* accounts step with the team resolved and the channel registered under
\* it, and finally set the channel's monitored accounts to the trimmed
\* comma-split list and remove the session.
C10_OnboardingFlow ==
    [][/\ C10_AssistStep
       /\ C10_TeamNameStep
       /\ C10_RegisterStep
       /\ C10_AccountsStep
       /\ C10_RemoveStep]_vars

\* the flow has run to its end in channel C1: the channel is registered
\* under the team named by the lower-cased text, its accounts are the two
\* trimmed pieces, and the session is gone
C10_Witness ==
    /\ onboarding_state["C1"] = 0
    /\ ChannelRowOf(channel_rows, "C1") # 0
    /\ channel_rows[ChannelRowOf(channel_rows, "C1")].monitored_bot_accounts
           = <<S_ci_bot, S_release_bot>>
    /\ teams[channel_rows[ChannelRowOf(channel_rows, "C1")].team_id].name
           = S_team_rocket
    /\ bot_posts.kind = "complete"
    /\ bot_posts.n = 4
    /\ events = 4
    /\ \A h \in HandlerIds : handlers[h] = IdleHandler


\* C11: while a channel has an onboarding session pinned to a thread, a
\* message event in that channel whose thread is another one (0: a
\* top-level message) changes no session, no team or channel record and
\* stores nothing, and the bot posts no reply.
C11_CrossThread ==
    [][\A ch \in ChannelIds :
          (/\ events' = events + 1
           /\ last'.type = "message"
           /\ last'.channel = ch
           /\ onboarding_state[ch] # 0
           /\ last'.thread_ts # sessions[onboarding_state[ch]].thread_ts)
          => /\ sessions' = sessions
             /\ onboarding_state' = onboarding_state
             /\ UNCHANGED dbVars
             /\ bot_posts' = bot_posts]_vars

\* a team name has just arrived at top level in a channel whose session is
\* at the team name step in a thread, and nothing has come of it
C11_Witness ==
    /\ last.type = "message"
    /\ last.text = S_TeamRocket
    /\ last.thread_ts = 0
    /\ onboarding_state[last.channel] # 0
    /\ sessions[onboarding_state[last.channel]].step = "team_name"
    /\ sessions[onboarding_state[last.channel]].thread_ts = 1
    /\ teams = <<>>
    /\ bot_posts.n = 2


\* the channel has a row whose monitored accounts have been set
Onboarded(ch) ==
    /\ ChannelRowOf(channel_rows, ch) # 0
    /\ channel_rows[ChannelRowOf(channel_rows, ch)].monitored_bot_accounts
           # NoAccounts

\* C12: after a restart in the middle of an onboarding (at any step), the
\* session is gone and the next app mention in that channel creates a new
\* session waiting for "assist".  Stated of the mention that follows a
\* restart, in a channel whose onboarding has not been completed.
C12_RestartThenMention ==
    [][\A ch \in ChannelIds :
          (/\ last.type = "restart"
           /\ ~Onboarded(ch)
           /\ events' = events + 1
           /\ last'.type = "app_mention"
           /\ last'.channel = ch)
          => /\ onboarding_state[ch] = 0
             /\ onboarding_state'[ch] # 0
             /\ sessions'[onboarding_state'[ch]].step = "waiting_for_assist"]_vars


\* C13: the live path stores an activity for a message event only if the
\* channel is registered, its onboarding is complete (its monitored
\* accounts are set and it has no session) and the message is from a bot
\* whose profile name is among the monitored accounts; it stores it as one
\* top-level activity of the channel's team.
C13_LiveGate ==
    [][activities' # activities
       => LET ch == last'.channel
              r == ChannelRowOf(channel_rows, ch)
          IN /\ events' = events + 1
             /\ last'.type = "message"
             /\ r # 0
             /\ Onboarded(ch)
             /\ onboarding_state[ch] = 0
             /\ last'.bot_id # "None"
             /\ InSeq(last'.bot_name, channel_rows[r].monitored_bot_accounts)
             /\ Len(activities') = Len(activities) + 1
             /\ SubSeq(activities', 1, Len(activities)) = activities
             /\ activities'[Len(activities')].via = "live"
             /\ activities'[Len(activities')].chan = ch
             /\ activities'[Len(activities')].team_id = channel_rows[r].team_id
             /\ activities'[Len(activities')].parent_activity_id = 0]_vars

\* the message of a monitored bot has been stored by the live path in a
\* channel that went through the whole onboarding
C13_Witness ==
    /\ Len(activities) = 1
    /\ activities[1].via = "live"
    /\ activities[1].chan = last.channel
    /\ last.bot_name = S_ci_bot
    /\ onboarding_state[last.channel] = 0
    /\ channel_rows[ChannelRowOf(channel_rows, last.channel)].monitored_bot_accounts
           = <<S_ci_bot, S_release_bot>>


\* the number of times x occurs in the sequence q
Occurrences(x, q) == Cardinality({k \in 1..Len(q) : q[k] = x})

\* the last two calls of get_or_create_team had the same arguments
CalledTwice ==
    /\ Len(calls) >= 2
    /\ calls[Len(calls)].team_name = calls[Len(calls) - 1].team_name
    /\ calls[Len(calls)].channel_id = calls[Len(calls) - 1].channel_id

\* C14: two calls of get_or_create_team with the same name and channel,
\* from any starting registry, return the same team both times, create at
\* most one team row, and leave the channel exactly once in the channel
\* ids of that team.
C14_Idempotent ==
    CalledTwice
    => LET first == calls[Len(calls) - 1]
           second == calls[Len(calls)]
       IN /\ second.id = first.id
          /\ Len(teams) <= Len(first.before) + 1
          /\ Occurrences(second.channel_id, teams[second.id].slack_channel_ids) = 1


\* the teams that have the channel among their channel ids
TeamsOf(ts, channel_id) ==
    {i \in 1..Len(ts) : InSeq(channel_id, ts[i].slack_channel_ids)}

\* C15: get_or_create_team resolves by channel first: when some team has
\* the channel among its channel ids the call returns that team, whatever
\* the name, and changes nothing; else, when a team has the name, it
\* returns it with the channel attached; else it creates a team owning
\* exactly that channel.  Hence a channel belongs to at most one team.
C15_ChannelFirst ==
    /\ calls # <<>>
       => LET c == calls[Len(calls)]
              owner == get_team_by_slack_channel(c.before, c.channel_id)
              named == TeamByName(c.before, c.team_name)
          IN IF owner # 0
             THEN c.id = owner /\ teams = c.before
             ELSE IF named # 0
             THEN /\ c.id = named
                  /\ teams = [c.before EXCEPT ![named].slack_channel_ids =
                                                  Append(@, c.channel_id)]
             ELSE /\ c.id = Len(c.before) + 1
                  /\ teams = Append(c.before,
                                    [name |-> c.team_name,
                                     slack_channel_ids |-> <<c.channel_id>>])
    /\ \A ch \in ChannelIds : Cardinality(TeamsOf(teams, ch)) <= 1


\* no two Channel rows for one channel, no two Team rows of one name
UniqueRows(rows, ts) ==
    /\ \A i, j \in 1..Len(rows) :
          rows[i].slack_channel_id = rows[j].slack_channel_id => i = j
    /\ \A i, j \in 1..Len(ts) : ts[i].name = ts[j].name => i = j

\* C16: under any interleaving of the handlers of onboarding messages
\* (suspended at their platform calls), no two Channel rows have the same
\* channel identifier and no two Team rows the same name; a handler that
\* resumes after another has inserted the row of its channel finds that
\* row and inserts none, and a handler that resolves the team after
\* another has created it for the channel gets that team.
C16_NoDuplicateRows ==
    [][/\ UniqueRows(channel_rows', teams')
       /\ \A h \in HandlerIds :
             (handlers[h].pc = "info" /\ handlers'[h].pc = "post"
                 /\ ChannelRowOf(channel_rows, handlers[h].channel_id) # 0)
             => channel_rows' = channel_rows
       /\ \A h \in HandlerIds :
             (HandlerOfLast(h) /\ handlers'[h].pc = "info"
                 /\ TeamsOf(teams, handlers'[h].channel_id) # {}
                 /\ TeamByName(teams, EventText(last')) = 0)
             => /\ Len(teams') = Len(teams)
                /\ handlers'[h].team_id \in TeamsOf(teams, handlers'[h].channel_id)]_vars

\* two handlers of team name messages for channel C1 ran concurrently: both
\* have passed conversations_info, the first inserted the row, the second
\* found it, and there is one team
C16_Witness ==
    /\ \A h \in HandlerIds :
          /\ handlers[h].pc = "post"
          /\ handlers[h].channel_id = "C1"
          /\ handlers[h].team_id = 1
    /\ Len(channel_rows) = 1
    /\ Len(teams) = 1
    /\ bot_posts.n = 4


\* the message that the activity with timestamp t was made from
MessageAt(t) == calls[t].msg

\* C17: the classification is a function of the message: (ALERT, FIRED)
\* when the lower-cased text contains "alert", also for a bot message;
\* else (BOT_MESSAGE, ONGOING) when the message carries a bot identity;
\* else (HUMAN_THREAD, ONGOING), also for a message without text.
C17_Classification ==
    \A i \in 1..Len(activities) :
        LET a == activities[i]
            msg == MessageAt(a.timestamp)
            alert == \E k \in 1..Len(msg.text) :
                        k + 4 <= Len(msg.text)
                        /\ Lower(SubSeq(msg.text, k, k + 4)) = S_alert
        IN /\ a.content = msg.text
           /\ <<a.activity_type, a.status>> =
                  IF alert THEN <<"ALERT", "FIRED">>
                  ELSE IF msg.bot_id # "None" THEN <<"BOT_MESSAGE", "ONGOING">>
                  ELSE <<"HUMAN_THREAD", "ONGOING">>
           /\ \A j \in 1..Len(activities) :
                 ( /\ MessageAt(activities[j].timestamp).text = msg.text
                   /\ MessageAt(activities[j].timestamp).bot_id = msg.bot_id )
                 => /\ activities[j].activity_type = a.activity_type
                    /\ activities[j].status = a.status

\* an alert written by a bot and a human message without text have both
\* been classified
C17_Witness ==
    /\ Len(activities) = 2
    /\ MessageAt(1).bot_id = "B1"
    /\ MessageAt(1).text = S_AlertDiskFull
    /\ activities[1].activity_type = "ALERT"
    /\ MessageAt(2).bot_id = "None"
    /\ MessageAt(2).text = <<>>
    /\ activities[2].activity_type = "HUMAN_THREAD"


\* C18: should_we_persist_message is true exactly when the message carries
\* a bot identity and its profile name is among the monitored accounts (a
\* NULL list has no members); a message without a bot identity is always
\* rejected, so the top-level step of the polling loop stores an activity
\* for such a bot message and for no other, never for a human message.
C18_PersistenceFilter ==
    \A k \in 1..Len(calls) :
        calls[k].op = "filter"
        => LET c == calls[k]
               member == /\ c.accounts # NoAccounts
                         /\ c.msg.bot_name \in {c.accounts[n] : n \in 1..Len(c.accounts)}
           IN /\ c.result = "true" <=> (c.msg.bot_id # "None" /\ member)
              /\ c.msg.bot_id = "None" => c.result = "false"
              /\ c.stored = (IF c.msg.bot_id # "None" /\ member THEN 1 ELSE 0)
              /\ c.stored = 1
                 => \E i \in 1..Len(activities) :
                       /\ activities[i].timestamp = c.msg.ts
                       /\ activities[i].parent_activity_id = 0

\* the same bot message passed a list naming its bot and was rejected with
\* a list naming another
C18_Witness ==
    /\ Len(calls) = 2
    /\ calls[1].op = "filter" /\ calls[2].op = "filter"
    /\ calls[1].msg.bot_name = S_ci_bot /\ calls[2].msg.bot_name = S_ci_bot
    /\ calls[1].accounts = <<S_ci_bot>> /\ calls[1].result = "true"
    /\ calls[2].accounts = <<S_other_bot>> /\ calls[2].result = "false"
    /\ Len(activities) = 1


\* C19: onboarding takes the text as the user sent it: a team created at
\* the team name step has the text of the message as its name, and the
\* monitored accounts set at the bot accounts step are the comma-separated
\* pieces of the message as sent, each only trimmed.
C19_TextAsSent ==
    [][\A ch \in ChannelIds :
          /\ (SameThreadMessage(ch, "team_name") /\ Len(teams') > Len(teams))
             => teams'[Len(teams')].name = last'.text
          /\ SameThreadMessage(ch, "bot_accounts")
             => LET r == ChannelRowOf(channel_rows', ch)
                    pieces == SplitComma(last'.text)
                IN channel_rows'[r].monitored_bot_accounts
                       = [k \in 1..Len(pieces) |-> Strip(pieces[k])]]_vars


\* an app mention arrives in a channel that has no Channel row
MentionUnregistered(ch) ==
    /\ events' = events + 1
    /\ last'.type = "app_mention"
    /\ last'.channel = ch
    /\ ChannelRowOf(channel_rows, ch) = 0

\* C20: an app mention in an unregistered channel starts a session,
\* waiting for "assist" and pinned to the thread of the mention, when the
\* channel has none, and continues the session when there is one: a
\* mention that arrives while the session is at the team name step leaves
\* it at that step and pinned to its thread (whichever of the mention event
\* and the message event of one user message is delivered first).
C20_MentionContinues ==
    [][\A ch \in ChannelIds :
          MentionUnregistered(ch)
          => IF onboarding_state[ch] = 0
             THEN /\ onboarding_state'[ch] # 0
                  /\ sessions'[onboarding_state'[ch]].step = "waiting_for_assist"
                  /\ sessions'[onboarding_state'[ch]].thread_ts = last'.thread_ts
             ELSE sessions[onboarding_state[ch]].step = "team_name"
                  => /\ onboarding_state'[ch] # 0
                     /\ sessions'[onboarding_state'[ch]].step = "team_name"
                     /\ sessions'[onboarding_state'[ch]].thread_ts
                            = sessions[onboarding_state[ch]].thread_ts]_vars


(***************************************************************************)
(* C21: the polling loop never ends on an error: a pass that fails as a    *)
(* whole (the registry query for the channel list fails, or the storage    *)
(* session cannot be obtained) is caught and followed by the 300-second    *)
(* back-off, not the 60-second interval, and the loop is then ready for    *)
(* another pass.                                                           *)
(***************************************************************************)
\* the polling task went from one sleep to the next although channels are
\* registered: the pass processed none of them, it failed as a whole, and
\* the loop is at its sleep again, from which the next pass starts
WholePassFailed ==
    /\ pc = "sleep"
    /\ pc' = "sleep"
    /\ pollVars' # pollVars
    /\ AllChannels # <<>>

C21_BackOffAfterFailure ==
    [][WholePassFailed => sleep_secs' = BackOff]_vars


(***************************************************************************)
(* C22: polling is idempotent at its fixpoint.  When the history query of  *)
(* a channel returns without error, the checkpoint the pass read for the   *)
(* channel is the timestamp of the channel's newest message and is still   *)
(* the stored one (no reset), then the step creates no activity and leaves *)
(* the checkpoint as it is: the message at the checkpoint is not ingested  *)
(* again.                                                                  *)
(***************************************************************************)
\* the timestamps of the messages of channel ch on the platform
StampsOf(ch) == {t \in 1..Len(posted) : posted[t].channel = ch}

\* the checkpoint c is the timestamp of the newest message of channel ch
AtFixpoint(ch, c) ==
    /\ c \in StampsOf(ch)
    /\ \A t \in StampsOf(ch) : t <= c

\* the history query of channel ch returns a page
HistoryAnswered(ch) ==
    /\ pc = "history"
    /\ channels[idx] = ch
    /\ <<pc, idx>>' # <<pc, idx>>
    /\ ~(outcome' # outcome /\ outcome'[ch].kind \in PollFailures)

ConfirmationReturns(h) ==
    /\ handlers[h].pc = "accounts_post"
    /\ handlers'[h].pc \notin {"accounts_post", "failed"}
    /\ sessions' = sessions

\* the account lists the messages of the model carry
MessageAccountLists == {BotAccounts(EventText(e)) : e \in MessageEvents}

C23_ConcurrentAccounts ==
    [][\A h \in HandlerIds :
          ConfirmationReturns(h)
          => LET ch == handlers[h].channel_id
                 others == {g \in HandlerIds \ {h} :
                               /\ handlers[g].pc = "accounts_post"
                               /\ handlers[g].channel_id = ch}
             IN /\ handlers'[h].pc = "idle"
                /\ onboarding_state'[ch] = 0
                /\ onboarding_state[ch] # 0 \/ others = {}
                /\ channel_rows[ChannelRowOf(channel_rows, ch)]
                       .monitored_bot_accounts \in MessageAccountLists]_vars

====
